---- MODULE Spec2Model ----
(***************************************************************************)
(* Lock-detection service: the DingTalk webhook pipeline                   *)
(* (apps/webhook_service.py, apps/dingtalk.py), the detector wrapper       *)
(* (apps/lock_detector.py) and the SQLite result store (apps/database.py). *)
(*                                                                         *)
(* Spec      : one event-handling task of DingTalkWebhookService, handling *)
(*             one callback after another, over the shared store.          *)
(* SpecStore : direct calls of the DatabaseManager API.                    *)
(* SpecQuery : saves and history queries of the DatabaseManager API.       *)
(* SpecOutcome : a LockDetectionResult built by add_lock and detect_locks. *)
(* SpecApi   : the lock-detection endpoints of main.py.                    *)
(* SpecMain  : the DingTalk configure and webhook endpoints of main.py.    *)
(* SpecConc  : two event-handling tasks of DingTalkWebhookService in       *)
(*             flight at once, interleaved at their awaits.                *)
(***************************************************************************)
EXTENDS Integers, Sequences, FiniteSets, TLC

VARIABLES db, hist, apiRet, svc, pc, ev, obs, outcome, origin, detects,
          webhook_service

vars == <<db, hist, apiRet, svc, pc, ev, obs, outcome, origin, detects,
          webhook_service>>

(***************************************************************************)
(* Bounds of the model.                                                    *)
(***************************************************************************)
\* cap on the AUTOINCREMENT counter of detection_results (SpecStore)
MaxSeq == 2
\* detections the webhook pipeline may persist before it stops taking
\* callbacks (Spec)
MaxSaves == 1
\* cap on the AUTOINCREMENT counter of lock_details
MaxDetailSeq == 2
\* detection_time values (wall-clock readings)
MaxTime == 2

None == [none |-> TRUE]

\* the two names bound to the webhook service object: the global of
\* apps/webhook_service.py and the name main.py imports from it; both are
\* None until something binds them; bound_by is the caller of the last
\* init_webhook_service
NoService == [module |-> None, main |-> None, bound_by |-> "none"]

(***************************************************************************)
(* Images and fingerprints (lock_detector.py:196-210).  An image is        *)
(* <<luma, chroma>>: convert('L') keeps the luma only, and the md5 of the  *)
(* grey bytes is modelled as an injective tag of the luma.                 *)
(***************************************************************************)
Lumas == {"g1", "g2"}
Chromas == {"c1", "c2"}
Images == Lumas \X Chromas

ConvertL(image) == image[1]

Md5Hex(bytes) == <<"md5", bytes>>

calculate_image_hash(image) == Md5Hex(ConvertL(image))

Hashes == {calculate_image_hash(i) : i \in Images}

(***************************************************************************)
(* LockDetectionResult (lock_detector.py:16-63).                           *)
(***************************************************************************)
Times == 1..MaxTime
Confidences == {93}

Max(a, b) == IF a >= b THEN a ELSE b

LockDetectionResult(now) ==
    [is_safe |-> TRUE, total_locks |-> 0, unlocked_locks |-> 0,
     locked_locks |-> 0, lock_details |-> <<>>, confidence_score |-> 0,
     detection_time |-> now]

\* variant of add_lock whose else branch marks the result unsafe but does
\* not count the lock as unlocked
add_lock_uncounted(result, lock_type, is_locked, confidence) ==
    [result EXCEPT
       !.lock_details = Append(@, [lock_type |-> lock_type,
                                   is_locked |-> is_locked,
                                   confidence |-> confidence]),
       !.total_locks = @ + 1,
       !.locked_locks = IF is_locked THEN @ + 1 ELSE @,
       !.is_safe = IF is_locked THEN @ ELSE FALSE,
       !.confidence_score = Max(@, confidence)]

add_lock(result, lock_type, is_locked, confidence) ==
    [result EXCEPT
       !.lock_details = Append(@, [lock_type |-> lock_type,
                                   is_locked |-> is_locked,
                                   confidence |-> confidence]),
       !.total_locks = @ + 1,
       !.locked_locks = IF is_locked THEN @ + 1 ELSE @,
       !.unlocked_locks = IF is_locked THEN @ ELSE @ + 1,
       !.is_safe = IF is_locked THEN @ ELSE FALSE,
       !.confidence_score = Max(@, confidence)]

(***************************************************************************)
(* DatabaseManager (database.py).  db.rows is table detection_results,     *)
(* db.seq its AUTOINCREMENT counter, db.details table lock_details and     *)
(* db.dseq its counter.  Every method runs in one transaction.             *)
(***************************************************************************)
DbInit == [rows |-> {}, seq |-> 0, details |-> {}, dseq |-> 0]

\* the row INSERT OR REPLACE writes for a DetectionResult
RowOf(id, result) ==
    [id |-> id,
     image_hash |-> result.image_hash,
     detection_time |-> result.detection_time,
     locks_detected |-> result.locks_detected,
     unlocked_locks |-> result.unlocked_locks,
     confidence_score |-> result.confidence_score,
     is_safe |-> result.is_safe]

\* variant of InsertOrReplace: a plain INSERT into a table without the
\* UNIQUE constraint, which keeps the earlier rows of the fingerprint
InsertKeepingRows(d, result) ==
    LET id == d.seq + 1
    IN  [db |-> [d EXCEPT !.rows = @ \cup {RowOf(id, result)}, !.seq = id],
         ret |-> id]

\* INSERT OR REPLACE: the rows that violate UNIQUE(image_hash) are deleted,
\* then the new row is inserted under a fresh AUTOINCREMENT id; lastrowid
\* is that id
InsertOrReplace(d, result) ==
    LET id == d.seq + 1
        kept == {r \in d.rows : r.image_hash # result.image_hash}
    IN  [db |-> [d EXCEPT !.rows = kept \cup {RowOf(id, result)},
                          !.seq = id],
         ret |-> id]

db_save_detection_result(d, result) == InsertOrReplace(d, result)

RECURSIVE InsertDetails(_, _, _)
InsertDetails(d, detection_id, lock_details) ==
    IF lock_details = <<>> THEN d
    ELSE LET detail == Head(lock_details)
             row == [id |-> d.dseq + 1,
                     detection_id |-> detection_id,
                     lock_type |-> detail.lock_type,
                     is_locked |-> detail.is_locked,
                     confidence |-> detail.confidence]
         IN  InsertDetails([d EXCEPT !.details = @ \cup {row},
                                     !.dseq = @ + 1],
                           detection_id, Tail(lock_details))

db_save_lock_details(d, detection_id, lock_details) ==
    InsertDetails(d, detection_id, lock_details)

get_detection_by_id(d, detection_id) ==
    IF \E r \in d.rows : r.id = detection_id
    THEN CHOOSE r \in d.rows : r.id = detection_id
    ELSE None

Min(a, b) == IF a <= b THEN a ELSE b

\* ORDER BY detection_time DESC: the rows as a list, later times first;
\* SQL defines no order among rows of equal detection_time, so every such
\* list is a possible delivery
OrderByDetectionTimeDesc(rows) ==
    LET n == Cardinality(rows)
    IN  {o \in [1..n -> rows] :
            /\ \A i, j \in 1..n : i # j => o[i] # o[j]
            /\ \A i, j \in 1..n :
                  i < j => o[i].detection_time >= o[j].detection_time}

\* ORDER BY detection_time ASC, as OrderByDetectionTimeDesc
OrderByDetectionTimeAsc(rows) ==
    LET n == Cardinality(rows)
    IN  {o \in [1..n -> rows] :
            /\ \A i, j \in 1..n : i # j => o[i] # o[j]
            /\ \A i, j \in 1..n :
                  i < j => o[i].detection_time <= o[j].detection_time}

\* LIMIT ? OFFSET ? with a limit and an offset that are not negative
LimitOffset(order, limit, offset) ==
    SubSeq(order, offset + 1, Min(Len(order), offset + limit))

\* variant of db_get_detection_history that sorts oldest first
db_get_detection_history_asc(d, limit, offset) ==
    {LimitOffset(o, limit, offset) : o \in OrderByDetectionTimeAsc(d.rows)}

\* DatabaseManager.get_detection_history: the lists the query may return
db_get_detection_history(d, limit, offset) ==
    {LimitOffset(o, limit, offset) : o \in OrderByDetectionTimeDesc(d.rows)}

\* SUM(column) over a set of rows, 0 for no rows (`or 0`)
RECURSIVE SumColumn(_, _)
SumColumn(rows, column) ==
    IF rows = {} THEN 0
    ELSE LET r == CHOOSE q \in rows : TRUE
         IN  r[column] + SumColumn(rows \ {r}, column)

\* a quotient of the float arithmetic of get_statistics, kept exact
Quotient(num, den) == [num |-> num, den |-> den]

\* variant of get_statistics whose second query counts the safe rows
get_statistics_counting_safe(d) ==
    LET total_detections == Cardinality(d.rows)
        unsafe_detections == Cardinality({r \in d.rows : r.is_safe})
    IN  [total_detections |-> total_detections,
         unsafe_detections |-> unsafe_detections,
         total_locks |-> SumColumn(d.rows, "locks_detected"),
         total_unlocked |-> SumColumn(d.rows, "unlocked_locks"),
         safety_rate |->
            IF total_detections > 0
            THEN Quotient((total_detections - unsafe_detections) * 100,
                          total_detections)
            ELSE Quotient(100, 1)]

\* DatabaseManager.get_statistics, without today_detections (the count of
\* the rows whose date is the date of the clock)
get_statistics(d) ==
    LET total_detections == Cardinality(d.rows)
        unsafe_detections == Cardinality({r \in d.rows : r.is_safe = FALSE})
    IN  [total_detections |-> total_detections,
         unsafe_detections |-> unsafe_detections,
         total_locks |-> SumColumn(d.rows, "locks_detected"),
         total_unlocked |-> SumColumn(d.rows, "unlocked_locks"),
         safety_rate |->
            IF total_detections > 0
            THEN Quotient((total_detections - unsafe_detections) * 100,
                          total_detections)
            ELSE Quotient(100, 1)]

\* apiRet: the last query of an API caller and its result, forgotten at
\* the next write
ApiInit == [op |-> "none", id |-> 0, row |-> None]

(***************************************************************************)
(* History of the saveDetection calls, per fingerprint: the id the first   *)
(* save returned, and the id and the argument of the most recent one.      *)
(***************************************************************************)
HistInit == [h \in Hashes |-> None]

RecordSave(hs, result, id) ==
    [hs EXCEPT ![result.image_hash] =
        [first |-> IF @ = None THEN id ELSE @.first,
         last |-> id,
         result |-> result]]

(***************************************************************************)
(* LockDetector (lock_detector.py:66-226).                                 *)
(***************************************************************************)
\* outcomes of model.predict: it raises, it yields no probabilities, or it
\* yields a top-1 class with a confidence
ClassIds == 0..3
Predictions ==
    {[kind |-> "raise", top1 |-> 0, top1conf |-> 0],
     [kind |-> "no_probs", top1 |-> 0, top1conf |-> 0]}
    \cup [kind : {"probs"}, top1 : ClassIds, top1conf : Confidences]

lock_classes(class_id) ==
    CASE class_id = 0 -> "labels"
      [] class_id = 1 -> "locked"
      [] class_id = 2 -> "unlocked"
      [] OTHER -> "unknown"

\* detect_locks: every exception of the prediction is caught and an empty
\* LockDetectionResult is returned
detect_locks(prediction, now) ==
    IF prediction.kind = "raise" THEN LockDetectionResult(now)
    ELSE IF prediction.kind = "no_probs" THEN LockDetectionResult(now)
    ELSE LET lock_status == lock_classes(prediction.top1)
             is_locked == (lock_status = "locked")
         IN  add_lock(LockDetectionResult(now), lock_status, is_locked,
                      prediction.top1conf)

\* the DetectionResult row object built at lock_detector.py:169-181
DetectionResultOf(image, detection_result) ==
    [image_hash |-> calculate_image_hash(image),
     detection_time |-> detection_result.detection_time,
     locks_detected |-> detection_result.total_locks,
     unlocked_locks |-> detection_result.unlocked_locks,
     confidence_score |-> detection_result.confidence_score,
     is_safe |-> detection_result.is_safe]

\* failures of the two store writes: none, the first raises, the second raises
DbFaults == {"none", "save", "details"}

\* variant of save_detection_result without its try/except: a failing
\* write is raised to the caller
save_detection_result_unguarded(d, hs, image, detection_result, fault) ==
    LET result == DetectionResultOf(image, detection_result)
        s1 == db_save_detection_result(d, result)
        s2 == db_save_lock_details(s1.db, s1.ret, detection_result.lock_details)
    IN  CASE fault = "save" ->
                [db |-> d, hist |-> hs, ret |-> -1, raised |-> TRUE]
          [] fault = "details" ->
                [db |-> s1.db, hist |-> RecordSave(hs, result, s1.ret),
                 ret |-> -1, raised |-> TRUE]
          [] OTHER ->
                [db |-> s2, hist |-> RecordSave(hs, result, s1.ret),
                 ret |-> s1.ret, raised |-> FALSE]

\* LockDetector.save_detection_result: both writes inside one try; any
\* exception is logged and -1 is returned, so nothing is raised to the
\* caller.  A write that raises is rolled back; the first write stays
\* committed when the second one raises.
save_detection_result(d, hs, image, detection_result, fault) ==
    LET result == DetectionResultOf(image, detection_result)
        s1 == db_save_detection_result(d, result)
        s2 == db_save_lock_details(s1.db, s1.ret, detection_result.lock_details)
    IN  CASE fault = "save" ->
                [db |-> d, hist |-> hs, ret |-> -1, raised |-> FALSE]
          [] fault = "details" ->
                [db |-> s1.db, hist |-> RecordSave(hs, result, s1.ret),
                 ret |-> -1, raised |-> FALSE]
          [] OTHER ->
                [db |-> s2, hist |-> RecordSave(hs, result, s1.ret),
                 ret |-> s1.ret, raised |-> FALSE]

(***************************************************************************)
(* Inbound callbacks (dingtalk.py:16-103).  An event is the request: the   *)
(* headers timestamp and sign, and the body.  A body is not JSON           *)
(* ("bad_json"), is JSON that from_dict cannot read ("bad_shape": a        *)
(* sub-dictionary that is no dictionary) or is a message dictionary whose  *)
(* fields have the types the message classes declare.                      *)
(***************************************************************************)
AppKey == "bot"
AppSecret == "secret"

Timestamps == {"t1"}
Signs == {"sgA", "sgB"}

\* <<text content as a sequence of characters, atUsers.dingtalkId>>
Mentions == {<<<<"h", "i">>, <<"staff">>>>, <<<<"@", "h">>, <<>>>>,
             <<<<>>, <<"staff", "bot">>>>}
\* <<sessionWebhook, sessionWebhookExpiredTime>>
SessionFields == {<<"", 0>>, <<"s1", 1>>, <<"s2", 1>>, <<"s1", 0>>}
\* <<images.imageUrl, images.downloadCode>>
ImageFields == {<<<<>>, <<>>>>, <<<<"u1">>, <<>>>>,
                <<<<"u1", "u2">>, <<"k1", "k2">>>>}

EmptyMessage ==
    [kind |-> "message", text |-> <<>>, dingtalk_id |-> <<>>,
     session_webhook |-> "", session_webhook_expired_time |-> 0,
     image_url |-> <<>>, download_code |-> <<>>]

Bodies ==
    {[EmptyMessage EXCEPT !.kind = "bad_json"],
     [EmptyMessage EXCEPT !.kind = "bad_shape"]}
    \cup {[EmptyMessage EXCEPT !.text = m[1], !.dingtalk_id = m[2],
                               !.session_webhook = s[1],
                               !.session_webhook_expired_time = s[2],
                               !.image_url = i[1], !.download_code = i[2]] :
            m \in Mentions, s \in SessionFields, i \in ImageFields}

Events == [timestamp : Timestamps, sign : Signs, body : Bodies]

(***************************************************************************)
(* DingTalkCallbackHandler (dingtalk.py:106-200).                          *)
(***************************************************************************)
\* base64(HMAC-SHA256(key, msg)): the library digest, fixed here as a table
\* over the bounded inputs in which one sign reproduces itself
HmacSha256Base64(key, msg) ==
    IF key = "secret" /\ msg = <<"t1", "\n", "sgA">> THEN "sgA" ELSE "sgX"

\* verify_signature: the string signed is "{timestamp}\n{sign}"
verify_signature(app_secret, timestamp, sign) ==
    LET string_to_sign == <<timestamp, "\n", sign>>
        signature == HmacSha256Base64(app_secret, string_to_sign)
    IN  signature = sign

Contains(seq, x) == \E i \in 1..Len(seq) : seq[i] = x

is_mentioned_to_bot(app_key, message) ==
    \/ (message.text # <<>> /\ Contains(message.text, "@"))
    \/ Contains(message.dingtalk_id, app_key)

extract_image_urls(message) == message.image_url

\* the URL download_image requests
DownloadUrl(image_url, download_code) ==
    IF download_code # "" THEN <<image_url, "?downloadCode=", download_code>>
    ELSE <<image_url>>

\* what the image server answers: a transport error, an HTTP status with
\* bytes that decode to an image or not
Downloads ==
    {[kind |-> "transport", status |-> 0, decodes |-> FALSE, image |-> <<"g1", "c1">>],
     [kind |-> "response", status |-> 500, decodes |-> FALSE, image |-> <<"g1", "c1">>],
     [kind |-> "response", status |-> 200, decodes |-> FALSE, image |-> <<"g1", "c1">>]}
    \cup [kind : {"response"}, status : {200}, decodes : {TRUE}, image : Images]

\* download_image: the image, or None on any failure
download_image(download) ==
    IF download.kind = "response" /\ download.status = 200 /\ download.decodes
    THEN download.image
    ELSE None

(***************************************************************************)
(* DingTalkMessageSender (dingtalk.py:203-336).                            *)
(***************************************************************************)
PostAnswers ==
    {[kind |-> "transport", status |-> 0, errcode |-> 0]}
    \cup [kind : {"response"}, status : {200, 500}, errcode : {0, 1}]

\* the boolean _send_message returns for an answer of the channel
send_message_result(answer) ==
    answer.kind = "response" /\ answer.status = 200 /\ answer.errcode = 0

(***************************************************************************)
(* DingTalkWebhookService (webhook_service.py:16-330).                     *)
(*                                                                         *)
(* pc[t] is the await a task is suspended in: "json" (request.json()),     *)
(* "download" (session.get of download_image), "post" (session.post of     *)
(* _send_message); "idle" before a request and "done" after it.  obs[t]    *)
(* records what the handling of the task's current event did.              *)
(***************************************************************************)
Tasks == {"t1", "t2"}

WebhookUrls == {"", "w0"}

ServiceInit(webhook_url) ==
    [app_key |-> AppKey, app_secret |-> AppSecret,
     session_webhook |-> "", session_webhook_expired_time |-> 0,
     webhook_url |-> webhook_url]

NoDownload == [kind |-> "none", status |-> 0, decodes |-> FALSE]

\* the part of an answer of the image server that obs keeps
AnswerOf(download) ==
    [kind |-> download.kind, status |-> download.status,
     decodes |-> download.decodes]

NoAnswer == [kind |-> "none", status |-> 0, errcode |-> 0]

\* replies: titles handed to send_markdown_message; posts: URLs posted to;
\* fetches: URLs requested; downloaded: what the image server answered;
\* predicted: outcomes of the classifier runs; persist: outcome of the
\* store write; answer: what the channel answered to the post; stages:
\* the stages of the handling in the order they ran; status: how
\* handle_callback ended; db0, svc0: the store and the service fields when
\* the request arrived
ObsInit(d, s) ==
    [replies |-> <<>>, posts |-> <<>>, fetches |-> <<>>,
     downloaded |-> NoDownload, predicted |-> <<>>, persist |-> "none",
     detection_id |-> 0, send_result |-> "none", answer |-> NoAnswer,
     stages |-> <<>>, status |-> 0,
     detail |-> "", db0 |-> d, svc0 |-> s]

\* a stage of the handling has run
Stage(o, name) == [o EXCEPT !.stages = Append(@, name)]

\* handle_callback's except clause: whatever is raised inside its try,
\* HTTPException included, leaves as HTTPException(500, detail=str(e))
handle_callback_except(o, status_code, detail) ==
    [o EXCEPT !.status = 500, !.detail = detail]

\* handle_callback returns its success dictionary
handle_callback_return(o, message) ==
    [o EXCEPT !.status = 200, !.detail = message]

\* send_markdown_message then _send_message, up to the post: without a
\* webhook_url nothing is posted and False comes back at once, and the
\* handler runs to its end; otherwise the task suspends in the post
send_markdown_message(t, o, webhook_url, title) ==
    LET o1 == Stage([o EXCEPT !.replies = Append(@, title)], "reply")
    IN  IF webhook_url = ""
        THEN /\ pc' = [pc EXCEPT ![t] = "done"]
             /\ obs' = [obs EXCEPT ![t] =
                          handle_callback_return(
                              [o1 EXCEPT !.send_result = "false"], "processed")]
        ELSE /\ pc' = [pc EXCEPT ![t] = "post"]
             /\ obs' = [obs EXCEPT ![t] =
                          [o1 EXCEPT !.posts = Append(@, webhook_url)]]

\* variant of SessionUpdate that stores the session webhook and its expiry
\* and leaves the sender's URL alone
SessionUpdate_store_only(s, message) ==
    IF /\ message.session_webhook # ""
       /\ message.session_webhook_expired_time > 0
    THEN [s EXCEPT !.session_webhook = message.session_webhook,
                   !.session_webhook_expired_time =
                        message.session_webhook_expired_time]
    ELSE s

\* variant of SessionUpdate that writes the session webhook and the sender's
\* URL and leaves the stored expiry for later
SessionUpdate_ref_first(s, message) ==
    IF /\ message.session_webhook # ""
       /\ message.session_webhook_expired_time > 0
    THEN [s EXCEPT !.session_webhook = message.session_webhook,
                   !.webhook_url = message.session_webhook]
    ELSE s

\* the session webhook update at the head of _process_message
SessionUpdate(s, message) ==
    IF /\ message.session_webhook # ""
       /\ message.session_webhook_expired_time > 0
    THEN [s EXCEPT !.session_webhook = message.session_webhook,
                   !.session_webhook_expired_time =
                        message.session_webhook_expired_time,
                   !.webhook_url = message.session_webhook]
    ELSE s

\* variant of process_message that ends without a reply when the message
\* lists no image
process_message_silent(t, o, message) ==
    LET s1 == SessionUpdate(svc, message)
        image_urls == extract_image_urls(message)
    IN  /\ svc' = s1
        /\ IF image_urls = <<>>
           THEN /\ pc' = [pc EXCEPT ![t] = "done"]
                /\ obs' = [obs EXCEPT ![t] =
                              handle_callback_return(o, "processed")]
           ELSE LET image_url == image_urls[1]
                    download_code ==
                        IF message.download_code # <<>>
                        THEN message.download_code[1] ELSE ""
                IN  /\ pc' = [pc EXCEPT ![t] = "download"]
                    /\ obs' = [obs EXCEPT ![t] =
                          [o EXCEPT !.fetches =
                             Append(@, DownloadUrl(image_url, download_code))]]

\* variant of process_message without the return after the no-image
\* reply: indexing the empty URL list raises, and the except clause sends
\* the error reply as well
process_message_fallthrough(t, o, message) ==
    LET s1 == SessionUpdate(svc, message)
        image_urls == extract_image_urls(message)
    IN  /\ svc' = s1
        /\ IF image_urls = <<>>
           THEN send_markdown_message(t,
                    [o EXCEPT !.replies = Append(@, "no_image")],
                    s1.webhook_url, "processing_error")
           ELSE LET image_url == image_urls[1]
                    download_code ==
                        IF message.download_code # <<>>
                        THEN message.download_code[1] ELSE ""
                IN  /\ pc' = [pc EXCEPT ![t] = "download"]
                    /\ obs' = [obs EXCEPT ![t] =
                          [o EXCEPT !.fetches =
                             Append(@, DownloadUrl(image_url, download_code))]]

\* variant of process_message that requests every listed image, each with
\* the access code at its position
process_message_all_images(t, o, message) ==
    LET s1 == SessionUpdate(svc, message)
        image_urls == extract_image_urls(message)
        code(i) == IF i <= Len(message.download_code)
                   THEN message.download_code[i] ELSE ""
    IN  /\ svc' = s1
        /\ IF image_urls = <<>>
           THEN send_markdown_message(t, o, s1.webhook_url, "no_image")
           ELSE /\ pc' = [pc EXCEPT ![t] = "download"]
                /\ obs' = [obs EXCEPT ![t] =
                      [o EXCEPT !.fetches =
                         @ \o [i \in 1..Len(image_urls) |->
                                  DownloadUrl(image_urls[i], code(i))]]]

\* _process_message from its start to its first await
process_message(t, o, message) ==
    LET s1 == SessionUpdate(svc, message)
        o1 == Stage(o, "session")
        image_urls == extract_image_urls(message)
    IN  /\ svc' = s1
        /\ IF image_urls = <<>>
           THEN send_markdown_message(t, o1, s1.webhook_url, "no_image")
           ELSE LET image_url == image_urls[1]
                    download_code ==
                        IF message.download_code # <<>>
                        THEN message.download_code[1] ELSE ""
                IN  /\ pc' = [pc EXCEPT ![t] = "download"]
                    /\ obs' = [obs EXCEPT ![t] =
                          [Stage(o1, "fetch") EXCEPT !.fetches =
                             Append(@, DownloadUrl(image_url, download_code))]]

\* variant of HandleCallback that logs a failed verification and goes on
HandleCallback_unchecked(t, e) ==
    /\ pc[t] \in {"idle", "done"}
    /\ db.seq < MaxSaves
    /\ ev' = [ev EXCEPT ![t] = e]
    /\ pc' = [pc EXCEPT ![t] = "json"]
    /\ obs' = [obs EXCEPT ![t] = ObsInit(db, svc)]
    /\ UNCHANGED <<db, hist, apiRet, svc, outcome, webhook_service, origin, detects>>

\* a request arrives: handle_callback up to `await request.json()`.
\* Requests are taken while fewer than MaxSaves detections are stored.
HandleCallback(t, e) ==
    /\ pc[t] \in {"idle", "done"}
    /\ db.seq < MaxSaves
    /\ ev' = [ev EXCEPT ![t] = e]
    /\ IF ~verify_signature(svc.app_secret, e.timestamp, e.sign)
       THEN /\ pc' = [pc EXCEPT ![t] = "done"]
            /\ obs' = [obs EXCEPT ![t] =
                          handle_callback_except(
                              Stage(ObsInit(db, svc), "verify"), 401, "signature")]
       ELSE /\ pc' = [pc EXCEPT ![t] = "json"]
            /\ obs' = [obs EXCEPT ![t] = Stage(ObsInit(db, svc), "verify")]
    /\ UNCHANGED <<db, hist, apiRet, svc, outcome, webhook_service, origin, detects>>

\* variant of HandleBody without the mention check
HandleBody_unfiltered(t) ==
    /\ pc[t] = "json"
    /\ LET body == ev[t].body
       IN  CASE body.kind = "bad_json" ->
                  /\ pc' = [pc EXCEPT ![t] = "done"]
                  /\ obs' = [obs EXCEPT ![t] =
                                handle_callback_except(@, 0, "json")]
                  /\ svc' = svc
             [] body.kind = "bad_shape" ->
                  /\ pc' = [pc EXCEPT ![t] = "done"]
                  /\ obs' = [obs EXCEPT ![t] =
                                handle_callback_except(@, 400, "format")]
                  /\ svc' = svc
             [] OTHER -> process_message(t, obs[t], body)
    /\ UNCHANGED <<db, hist, apiRet, ev, outcome, webhook_service, origin, detects>>

\* the body has been read: parse, mention check, _process_message up to its
\* first await
HandleBody(t) ==
    /\ pc[t] = "json"
    /\ LET body == ev[t].body
       IN  CASE body.kind = "bad_json" ->
                  /\ pc' = [pc EXCEPT ![t] = "done"]
                  /\ obs' = [obs EXCEPT ![t] =
                                handle_callback_except(@, 0, "json")]
                  /\ svc' = svc
             [] body.kind = "bad_shape" ->
                  /\ pc' = [pc EXCEPT ![t] = "done"]
                  /\ obs' = [obs EXCEPT ![t] =
                                handle_callback_except(Stage(@, "parse"),
                                                       400, "format")]
                  /\ svc' = svc
             [] OTHER ->
                  IF ~is_mentioned_to_bot(svc.app_key, body)
                  THEN /\ pc' = [pc EXCEPT ![t] = "done"]
                       /\ obs' = [obs EXCEPT ![t] =
                                     handle_callback_return(
                                         Stage(Stage(@, "parse"), "mention"),
                                         "ignored")]
                       /\ svc' = svc
                  ELSE process_message(
                           t, Stage(Stage(obs[t], "parse"), "mention"), body)
    /\ UNCHANGED <<db, hist, apiRet, ev, outcome, webhook_service, origin, detects>>

\* variant of process_image that requests the image a second time when the
\* first request fails
process_image_retry(t, o, download, prediction, now, fault) ==
    LET image == download_image(download)
        o0 == [o EXCEPT !.downloaded = AnswerOf(download)]
    IN  IF image = None
        THEN /\ UNCHANGED <<db, hist>>
             /\ IF Len(o.fetches) < 2
                THEN /\ pc' = pc
                     /\ obs' = [obs EXCEPT ![t] =
                                   [o0 EXCEPT !.fetches = Append(@, @[1])]]
                ELSE send_markdown_message(t, o0, svc.webhook_url,
                                           "download_error")
        ELSE LET detection_result == detect_locks(prediction, now)
                 saved == save_detection_result(db, hist, image,
                                                detection_result, fault)
                 o1 == [o0 EXCEPT
                          !.predicted = Append(@, prediction.kind),
                          !.persist = IF fault = "none" THEN "saved" ELSE "failed",
                          !.detection_id = saved.ret]
             IN  /\ db' = saved.db
                 /\ hist' = saved.hist
                 /\ send_markdown_message(t, o1, svc.webhook_url,
                                          "detection_result")

\* variant of process_image that sends the detection result before the
\* store writes
process_image_reply_first(t, o, download, prediction, now, fault) ==
    LET image == download_image(download)
        o0 == [o EXCEPT !.downloaded = AnswerOf(download)]
    IN  IF image = None
        THEN /\ UNCHANGED <<db, hist>>
             /\ send_markdown_message(t, o0, svc.webhook_url, "download_error")
        ELSE LET detection_result == detect_locks(prediction, now)
                 saved == save_detection_result(db, hist, image,
                                                detection_result, fault)
                 o1 == [o0 EXCEPT
                          !.predicted = Append(@, prediction.kind),
                          !.persist = IF fault = "none" THEN "saved" ELSE "failed",
                          !.detection_id = saved.ret,
                          !.replies = Append(@, "detection_result"),
                          !.stages = @ \o <<"classify", "reply", "save_detection">>]
             IN  /\ db' = saved.db
                 /\ hist' = saved.hist
                 /\ IF svc.webhook_url = ""
                    THEN /\ pc' = [pc EXCEPT ![t] = "done"]
                         /\ obs' = [obs EXCEPT ![t] =
                                handle_callback_return(
                                    [o1 EXCEPT !.send_result = "false"],
                                    "processed")]
                    ELSE /\ pc' = [pc EXCEPT ![t] = "post"]
                         /\ obs' = [obs EXCEPT ![t] =
                                [o1 EXCEPT !.posts = Append(@, svc.webhook_url)]]

\* the stages from the classification to the end of the store writes:
\* save_lock_details is called once save_detection_result has returned
SaveStages(fault) ==
    IF fault = "save" THEN <<"classify", "save_detection">>
    ELSE <<"classify", "save_detection", "save_lock_details">>

\* the download has ended: the rest of _process_message up to the post.
\* An exception that reaches the except clause of _process_message is
\* answered by _send_error_message.
process_image(t, o, download, prediction, now, fault) ==
    LET image == download_image(download)
        o0 == [o EXCEPT !.downloaded = AnswerOf(download)]
    IN  IF image = None
        THEN /\ UNCHANGED <<db, hist>>
             /\ send_markdown_message(t, o0, svc.webhook_url, "download_error")
        ELSE LET detection_result == detect_locks(prediction, now)
                 saved == save_detection_result(db, hist, image,
                                                detection_result, fault)
                 o1 == [o0 EXCEPT
                          !.predicted = Append(@, prediction.kind),
                          !.persist = IF fault = "none" THEN "saved" ELSE "failed",
                          !.detection_id = saved.ret,
                          !.stages = @ \o SaveStages(fault)]
             IN  /\ db' = saved.db
                 /\ hist' = saved.hist
                 /\ IF saved.raised
                    THEN send_markdown_message(t, o1, svc.webhook_url,
                                               "processing_error")
                    ELSE send_markdown_message(t, o1, svc.webhook_url,
                                               "detection_result")

DownloadDone(t, download, prediction, now, fault) ==
    /\ pc[t] = "download"
    /\ process_image(t, obs[t], download, prediction, now, fault)
    /\ UNCHANGED <<apiRet, svc, ev, outcome, webhook_service, origin, detects>>

\* variant of PostDone without the except clause of _send_message: a
\* transport error of the post leaves handle_callback as an exception
PostDone_reraise(t, answer) ==
    /\ pc[t] = "post"
    /\ pc' = [pc EXCEPT ![t] = "done"]
    /\ obs' = [obs EXCEPT ![t] =
                  IF answer.kind = "transport"
                  THEN handle_callback_except([@ EXCEPT !.answer = answer],
                                              0, "post")
                  ELSE handle_callback_return(
                          [@ EXCEPT !.answer = answer,
                                    !.send_result =
                              IF send_message_result(answer) THEN "true"
                              ELSE "false"],
                          "processed")]
    /\ UNCHANGED <<db, hist, apiRet, svc, ev, outcome, webhook_service, origin, detects>>

\* the post has ended: send_markdown_message returns and so does
\* handle_callback
PostDone(t, answer) ==
    /\ pc[t] = "post"
    /\ pc' = [pc EXCEPT ![t] = "done"]
    /\ obs' = [obs EXCEPT ![t] =
                  handle_callback_return(
                      [@ EXCEPT !.answer = answer,
                                !.send_result =
                          IF send_message_result(answer) THEN "true" ELSE "false"],
                      "processed")]
    /\ UNCHANGED <<db, hist, apiRet, svc, ev, outcome, webhook_service, origin, detects>>

Init ==
    /\ db = DbInit
    /\ hist = HistInit
    /\ apiRet = ApiInit
    /\ svc \in {ServiceInit(w) : w \in WebhookUrls}
    /\ pc = [t \in Tasks |-> "idle"]
    /\ ev = [t \in Tasks |-> None]
    /\ obs = [t \in Tasks |-> ObsInit(DbInit, ServiceInit(""))]
    /\ outcome = LockDetectionResult(1)
    /\ origin = "new"
    /\ detects = 0
    /\ webhook_service = NoService

\* the task that handles the callbacks of Spec, one after another
Worker == "t1"

Next ==
    \/ \E e \in Events : HandleCallback(Worker, e)
    \/ HandleBody(Worker)
    \/ \E d \in Downloads, p \in Predictions, now \in Times, f \in DbFaults :
          DownloadDone(Worker, d, p, now, f)
    \/ \E a \in PostAnswers : PostDone(Worker, a)

Spec == Init /\ [][Next]_vars

(***************************************************************************)
(* SpecStore: a caller of the DatabaseManager API (database.py:100-190).   *)
(***************************************************************************)
\* <<locks_detected, unlocked_locks, is_safe>> of the records a caller saves
LockCounts == {<<1, 0, TRUE>>, <<3, 1, FALSE>>}

DetectionResults ==
    {[image_hash |-> h, detection_time |-> now, locks_detected |-> c[1],
      unlocked_locks |-> c[2], confidence_score |-> 93, is_safe |-> c[3]] :
        h \in Hashes, now \in Times, c \in LockCounts}

LockDetails ==
    {[lock_type |-> "locked", is_locked |-> TRUE, confidence |-> 93],
     [lock_type |-> "unlocked", is_locked |-> FALSE, confidence |-> 93]}

LockDetailLists ==
    UNION {[1..n -> LockDetails] : n \in 0..MaxDetailSeq}

ApiSaveDetection(result) ==
    /\ db.seq < MaxSeq
    /\ LET saved == db_save_detection_result(db, result)
       IN  /\ db' = saved.db
           /\ hist' = RecordSave(hist, result, saved.ret)
           /\ apiRet' = ApiInit
    /\ UNCHANGED <<svc, pc, ev, obs, outcome, webhook_service, origin, detects>>

ApiSaveLockDetails(detection_id, lock_details) ==
    /\ detection_id \in 1..db.seq
    /\ db.dseq + Len(lock_details) <= MaxDetailSeq
    /\ db' = db_save_lock_details(db, detection_id, lock_details)
    /\ apiRet' = ApiInit
    /\ UNCHANGED <<hist, svc, pc, ev, obs, outcome, webhook_service, origin, detects>>

ApiGetById(detection_id) ==
    /\ apiRet' = [op |-> "get_detection_by_id", id |-> detection_id,
                  row |-> get_detection_by_id(db, detection_id)]
    /\ UNCHANGED <<db, hist, svc, pc, ev, obs, outcome, webhook_service, origin, detects>>

ApiGetStatistics ==
    /\ apiRet' = [op |-> "get_statistics", result |-> get_statistics(db)]
    /\ UNCHANGED <<db, hist, svc, pc, ev, obs, outcome, webhook_service, origin, detects>>

NextStore ==
    \/ \E r \in DetectionResults : ApiSaveDetection(r)
    \/ \E id \in 1..MaxSeq, l \in LockDetailLists : ApiSaveLockDetails(id, l)
    \/ \E id \in 1..MaxSeq : ApiGetById(id)
    \/ ApiGetStatistics

InitStore ==
    /\ db = DbInit
    /\ hist = HistInit
    /\ apiRet = ApiInit
    /\ svc = ServiceInit("")
    /\ pc = [t \in Tasks |-> "idle"]
    /\ ev = [t \in Tasks |-> None]
    /\ obs = [t \in Tasks |-> ObsInit(DbInit, ServiceInit(""))]
    /\ outcome = LockDetectionResult(1)
    /\ origin = "new"
    /\ detects = 0
    /\ webhook_service = NoService

SpecStore == InitStore /\ [][NextStore]_vars

(***************************************************************************)
(* SpecQuery: a caller that saves detection records under the fingerprints *)
(* of tests/test_database.py and pages through the history                 *)
(* (database.py:100-126, 152-172).                                         *)
(***************************************************************************)
\* cap on the AUTOINCREMENT counter of detection_results (SpecQuery)
MaxRows == 3

QueryHashes == {"hash0", "hash1", "hash2"}

QueryResults ==
    {[image_hash |-> h, detection_time |-> now, locks_detected |-> 1,
      unlocked_locks |-> 0, confidence_score |-> 93, is_safe |-> TRUE] :
        h \in QueryHashes, now \in Times}

Limits == 1..3
Offsets == 0..3

QuerySaveDetection(result) ==
    /\ db.seq < MaxRows
    /\ db' = db_save_detection_result(db, result).db
    /\ apiRet' = ApiInit
    /\ UNCHANGED <<hist, svc, pc, ev, obs, outcome, webhook_service, origin, detects>>

QueryGetHistory(limit, offset) ==
    /\ \E result \in db_get_detection_history(db, limit, offset) :
          apiRet' = [op |-> "get_detection_history", limit |-> limit,
                     offset |-> offset, result |-> result]
    /\ UNCHANGED <<db, hist, svc, pc, ev, obs, outcome, webhook_service, origin, detects>>

NextQuery ==
    \/ \E r \in QueryResults : QuerySaveDetection(r)
    \/ \E l \in Limits, o \in Offsets : QueryGetHistory(l, o)

SpecQuery == InitStore /\ [][NextQuery]_vars

(***************************************************************************)
(* SpecApi: the lock-detection endpoints of main.py (219-263, 328-384)     *)
(* over the detector and the store.  apiRet is the last response; its      *)
(* file_decodes tells whether the bytes of the request were an image.      *)
(* detects counts the detect requests answered with success and a stored   *)
(* detection id.                                                           *)
(***************************************************************************)
\* cap on the detect requests that write a detection record (SpecApi)
MaxDetects == 2

\* uploaded files: bytes that PIL cannot open, or the bytes of an image
Files ==
    {[decodes |-> FALSE, image |-> <<"g1", "c1">>]}
    \cup [decodes : {TRUE}, image : Images]

\* variant of get_image_from_bytes that yields an image for any bytes
get_image_from_bytes_lenient(file) == file.image

\* get_image_from_bytes (detech.py:15-34): the image, or None for the
\* ValueError it raises
get_image_from_bytes(file) == IF file.decodes THEN file.image ELSE None

\* the classifier outcomes of SpecApi
ApiPredictions ==
    {p \in Predictions : p.kind = "raise" \/ (p.kind = "probs" /\ p.top1 \in {1, 2})}

\* LockDetector.get_detection_history(limit)
lock_detector_get_detection_history(d, limit) ==
    db_get_detection_history(d, limit, 0)

\* LockDetector.get_detection_statistics
get_detection_statistics(d) == get_statistics(d)

\* GET /api/v1/history: the lists data.history may be
api_get_detection_history(d, limit, offset) ==
    lock_detector_get_detection_history(d, limit)

\* POST /api/v1/lock/detect
ApiDetectLocks(file, prediction, now, fault) ==
    /\ db.seq < MaxDetects
    /\ LET input_image == get_image_from_bytes(file)
       IN  IF input_image = None
           THEN /\ apiRet' = [op |-> "detect_locks", success |-> FALSE,
                              message |-> "detection_failed",
                              file_decodes |-> file.decodes]
                /\ UNCHANGED <<db, hist, detects>>
           ELSE LET detection_result == detect_locks(prediction, now)
                    saved == save_detection_result(db, hist, input_image,
                                                   detection_result, fault)
                IN  /\ db' = saved.db
                    /\ hist' = saved.hist
                    /\ apiRet' = [op |-> "detect_locks", success |-> TRUE,
                                  message |-> "detection_done",
                                  file_decodes |-> file.decodes,
                                  detection_id |-> saved.ret,
                                  result |-> detection_result]
                    /\ detects' = IF saved.ret > 0 THEN detects + 1
                                  ELSE detects
    /\ UNCHANGED <<svc, pc, ev, obs, outcome, webhook_service, origin>>

\* GET /api/v1/history
ApiGetHistory(limit, offset) ==
    /\ \E history \in api_get_detection_history(db, limit, offset) :
          apiRet' = [op |-> "api_history", success |-> TRUE,
                     limit |-> limit, offset |-> offset,
                     history |-> history]
    /\ UNCHANGED <<db, hist, svc, pc, ev, obs, outcome, webhook_service, origin, detects>>

\* GET /api/v1/stats (detection_stats; dataset_stats is the trainer's)
ApiGetStats ==
    /\ apiRet' = [op |-> "api_stats", success |-> TRUE,
                  detection_stats |-> get_detection_statistics(db)]
    /\ UNCHANGED <<db, hist, svc, pc, ev, obs, outcome, webhook_service, origin, detects>>

NextApi ==
    \/ \E f \in Files, p \in ApiPredictions, now \in Times, x \in DbFaults :
          ApiDetectLocks(f, p, now, x)
    \/ \E l \in 1..2, o \in 0..1 : ApiGetHistory(l, o)
    \/ ApiGetStats

SpecApi == InitStore /\ [][NextApi]_vars

(***************************************************************************)
(* SpecOutcome: a caller builds LockDetectionResult objects                *)
(* (lock_detector.py:16-51, 92-136).  outcome is the object, origin the    *)
(* call that produced it: the constructor ("new"), add_lock, or            *)
(* detect_locks.                                                           *)
(***************************************************************************)
\* cap on the add_lock calls on one object
MaxLocks == 2

\* the labels and confidences a caller passes to add_lock
LockTypes == {"labels", "locked", "unlocked", "unknown"}
AddConfidences == {50, 93}

NewOutcome(now) ==
    /\ outcome' = LockDetectionResult(now)
    /\ origin' = "new"
    /\ UNCHANGED <<db, hist, apiRet, svc, pc, ev, obs, detects, webhook_service>>

AddLock(lock_type, is_locked, confidence) ==
    /\ outcome.total_locks < MaxLocks
    /\ outcome' = add_lock(outcome, lock_type, is_locked, confidence)
    /\ origin' = "add_lock"
    /\ UNCHANGED <<db, hist, apiRet, svc, pc, ev, obs, detects, webhook_service>>

DetectLocks(prediction, now) ==
    /\ outcome' = detect_locks(prediction, now)
    /\ origin' = "detect_locks"
    /\ UNCHANGED <<db, hist, apiRet, svc, pc, ev, obs, detects, webhook_service>>

NextOutcome ==
    \/ \E now \in Times : NewOutcome(now)
    \/ \E l \in LockTypes, b \in BOOLEAN, c \in AddConfidences : AddLock(l, b, c)
    \/ \E p \in Predictions, now \in Times : DetectLocks(p, now)

InitOutcome ==
    /\ db = DbInit
    /\ hist = HistInit
    /\ apiRet = ApiInit
    /\ svc = ServiceInit("")
    /\ pc = [t \in Tasks |-> "idle"]
    /\ ev = [t \in Tasks |-> None]
    /\ obs = [t \in Tasks |-> ObsInit(DbInit, ServiceInit(""))]
    /\ outcome \in {LockDetectionResult(now) : now \in Times}
    /\ origin = "new"
    /\ detects = 0
    /\ webhook_service = NoService

SpecOutcome == InitOutcome /\ [][NextOutcome]_vars

(***************************************************************************)
(* Properties.                                                             *)
(***************************************************************************)
\* the handler's current event passed signature verification
Verified(t) ==
    /\ ev[t] # None
    /\ verify_signature(AppSecret, ev[t].timestamp, ev[t].sign)

\* ... and parsing and the mention check
Relevant(t) ==
    /\ Verified(t)
    /\ ev[t].body.kind = "message"
    /\ is_mentioned_to_bot(AppKey, ev[t].body)

RowCarries(row, result) ==
    /\ row.image_hash = result.image_hash
    /\ row.detection_time = result.detection_time
    /\ row.locks_detected = result.locks_detected
    /\ row.unlocked_locks = result.unlocked_locks
    /\ row.confidence_score = result.confidence_score
    /\ row.is_safe = result.is_safe

\* C1: after any sequence of saves the store holds at most one detection
\* record per fingerprint, that record carries the values of the most
\* recent save of the fingerprint, and looking up the id that save returned
\* yields those values.
C1_OneRecordPerFingerprint ==
    \A h \in Hashes :
       /\ Cardinality({r \in db.rows : r.image_hash = h}) <= 1
       /\ hist[h] # None =>
             /\ \E r \in db.rows : RowCarries(r, hist[h].result)
             /\ get_detection_by_id(db, hist[h].last) # None
             /\ RowCarries(get_detection_by_id(db, hist[h].last),
                           hist[h].result)

\* a fingerprint saved twice with different values, and the id of the
\* second save looked up
C1_Witness ==
    \E h \in Hashes :
       /\ hist[h] # None
       /\ hist[h].first # hist[h].last
       /\ apiRet.op = "get_detection_by_id"
       /\ apiRet.id = hist[h].last
       /\ apiRet.row # None
       /\ apiRet.row.locks_detected = 3
       /\ Cardinality(db.rows) = 1

\* C2: the id saveDetection returns is stable across replace: every save
\* of a stored fingerprint returns the id of the first save of that
\* fingerprint, and a lookup of the first id still finds the record.
C2_IdStableAcrossReplace ==
    \A h \in Hashes :
       hist[h] # None =>
          /\ hist[h].last = hist[h].first
          /\ get_detection_by_id(db, hist[h].first) # None

ReplyTitles ==
    {"detection_result", "no_image", "download_error", "processing_error"}

\* C3: an event that passed verification, parsing and the mention check
\* has exactly one reply handed to the sender by the time its handling
\* ends, of one of the four kinds, and never two at any time.
C3_ExactlyOneReply ==
    \A t \in Tasks :
       Relevant(t) =>
          /\ Len(obs[t].replies) <= 1
          /\ pc[t] \in {"post", "done"} =>
                /\ Len(obs[t].replies) = 1
                /\ obs[t].replies[1] \in ReplyTitles

\* a relevant event handled to its end, its one reply accepted by the
\* channel
C3_Witness ==
    \E t \in Tasks :
       /\ Relevant(t)
       /\ pc[t] = "done"
       /\ obs[t].replies = <<"detection_result">>
       /\ obs[t].send_result = "true"

\* C4: when signature verification fails, the handler ends with the
\* authentication error status 401.
C4_BadSignatureIs401 ==
    \A t \in Tasks :
       (pc[t] = "done" /\ ev[t] # None /\ ~Verified(t)) =>
           obs[t].status = 401

\* C5: an event whose signature verification fails ends at once and has no
\* effect: no reply, no post, no fetch, no classification, no store write,
\* and the session webhook fields and the sender URL stay as they were.
C5_RejectedHasNoEffect ==
    \A t \in Tasks :
       (ev[t] # None /\ ~Verified(t)) =>
          /\ pc[t] = "done"
          /\ obs[t].replies = <<>>
          /\ obs[t].posts = <<>>
          /\ obs[t].fetches = <<>>
          /\ obs[t].predicted = <<>>
          /\ obs[t].persist = "none"
          /\ db = obs[t].db0
          /\ svc = obs[t].svc0

\* a rejected, otherwise relevant event with an image and a fresh session
\* webhook that the service does not know
C5_Witness ==
    \E t \in Tasks :
       /\ ev[t] # None
       /\ ~Verified(t)
       /\ pc[t] = "done"
       /\ ev[t].body.kind = "message"
       /\ is_mentioned_to_bot(AppKey, ev[t].body)
       /\ ev[t].body.image_url # <<>>
       /\ ev[t].body.session_webhook = "s1"
       /\ ev[t].body.session_webhook_expired_time > 0
       /\ svc.session_webhook # "s1"

\* C7: a relevant event without image references gets exactly one
\* "no_image" reply and ends: nothing is fetched or classified and no
\* detection record is written.
C7_NoImageGuidance ==
    \A t \in Tasks :
       (Relevant(t) /\ ev[t].body.image_url = <<>>) =>
          /\ pc[t] \in {"json", "post", "done"}
          /\ pc[t] # "json" => obs[t].replies = <<"no_image">>
          /\ obs[t].fetches = <<>>
          /\ obs[t].predicted = <<>>
          /\ obs[t].persist = "none"
          /\ db = obs[t].db0

C7_Witness ==
    \E t \in Tasks :
       /\ Relevant(t)
       /\ ev[t].body.image_url = <<>>
       /\ pc[t] = "done"
       /\ obs[t].replies = <<"no_image">>
       /\ obs[t].posts # <<>>

\* the image server's answer was a failure: transport error, a status
\* other than 200, or bytes that are no image
FetchFailed(t) ==
    /\ obs[t].downloaded.kind # "none"
    /\ \/ obs[t].downloaded.kind = "transport"
       \/ obs[t].downloaded.status # 200
       \/ ~obs[t].downloaded.decodes

\* C8: when the fetch fails it has been attempted exactly once, exactly one
\* "download_error" reply is sent, the classifier is not run and no
\* detection record is written.
C8_FetchFailure ==
    \A t \in Tasks :
       FetchFailed(t) =>
          /\ pc[t] \in {"post", "done"}
          /\ Len(obs[t].fetches) = 1
          /\ obs[t].replies = <<"download_error">>
          /\ obs[t].predicted = <<>>
          /\ obs[t].persist = "none"
          /\ db = obs[t].db0

C8_Witness ==
    \E t \in Tasks :
       /\ pc[t] = "done"
       /\ obs[t].downloaded.kind = "response"
       /\ obs[t].downloaded.status = 500
       /\ Len(obs[t].fetches) = 1
       /\ obs[t].replies = <<"download_error">>

\* C9: when the classifier raises on a fetched image, the reply of the
\* event is the processing-error reply and no detection-result reply is
\* sent.
C9_ClassifierFailureReply ==
    \A t \in Tasks :
       (obs[t].predicted = <<"raise">> /\ pc[t] \in {"post", "done"}) =>
           obs[t].replies = <<"processing_error">>

\* C10: a failed store write does not block delivery: the event's reply is
\* the detection result, posted when a webhook URL is known, and no error
\* reply is sent.
C10_PersistenceFailureDelivers ==
    \A t \in Tasks :
       obs[t].persist = "failed" =>
          /\ pc[t] \in {"post", "done"}
          /\ obs[t].replies = <<"detection_result">>
          /\ obs[t].detection_id = -1
          /\ svc.webhook_url # "" => obs[t].posts = <<svc.webhook_url>>

C10_Witness ==
    \E t \in Tasks :
       /\ obs[t].persist = "failed"
       /\ pc[t] = "done"
       /\ obs[t].replies = <<"detection_result">>
       /\ obs[t].posts # <<>>
       /\ db = obs[t].db0

\* C11: for every LockDetectionResult, after any sequence of add_lock calls
\* (none included), locked + unlocked = total, total is the number of
\* detail entries, and is_safe holds exactly when unlocked is 0.
C11_OutcomeCounts ==
    /\ outcome.locked_locks + outcome.unlocked_locks = outcome.total_locks
    /\ outcome.total_locks = Len(outcome.lock_details)
    /\ outcome.is_safe = (outcome.unlocked_locks = 0)

\* two add_lock calls, one locked and one not
C11_Witness ==
    /\ origin = "add_lock"
    /\ outcome.total_locks = 2
    /\ outcome.locked_locks = 1
    /\ outcome.unlocked_locks = 1
    /\ ~outcome.is_safe

\* C12: an item detect_locks classifies with a label other than "locked"
\* and "unlocked" counts in total and in the detail list, but in neither
\* the locked nor the unlocked count, and leaves the outcome safe.
C12_OtherLabelsExcluded ==
    (/\ origin = "detect_locks"
     /\ Len(outcome.lock_details) = 1
     /\ outcome.lock_details[1].lock_type \notin {"locked", "unlocked"}) =>
        /\ outcome.total_locks = 1
        /\ outcome.locked_locks = 0
        /\ outcome.unlocked_locks = 0
        /\ outcome.is_safe

\* the handler's current event passed verification and parsing and fails
\* the mention check
Irrelevant(t) ==
    /\ Verified(t)
    /\ ev[t].body.kind = "message"
    /\ ~is_mentioned_to_bot(AppKey, ev[t].body)

\* C13: an authenticated, parsed event that fails the mention check is
\* ignored silently: the handler returns its success result, and there is
\* no reply, no post, no fetch, no classification and no store write (nor
\* a change of the session webhook fields).
C13_IrrelevantIgnored ==
    \A t \in Tasks :
       Irrelevant(t) =>
          /\ pc[t] \in {"json", "done"}
          /\ pc[t] = "done" => (obs[t].status = 200 /\ obs[t].detail = "ignored")
          /\ obs[t].replies = <<>>
          /\ obs[t].posts = <<>>
          /\ obs[t].fetches = <<>>
          /\ obs[t].predicted = <<>>
          /\ obs[t].persist = "none"
          /\ db = obs[t].db0
          /\ svc = obs[t].svc0

\* an event without a mention that lists an image and a fresh session
\* webhook, handled to its end
C13_Witness ==
    \E t \in Tasks :
       /\ Irrelevant(t)
       /\ pc[t] = "done"
       /\ obs[t].status = 200
       /\ ev[t].body.image_url # <<>>
       /\ ev[t].body.session_webhook = "s1"
       /\ ev[t].body.session_webhook_expired_time > 0
       /\ svc.session_webhook # "s1"

\* the URL requested for the first image reference of a message
FirstFetch(message) ==
    DownloadUrl(message.image_url[1],
                IF message.download_code # <<>>
                THEN message.download_code[1] ELSE "")

\* C14: of the n >= 1 image references of a relevant event only the first
\* is processed: once the body is handled exactly one fetch has been made,
\* of the first URL with the first access code when there is one; at most
\* one classification runs, at most one detection record is written and
\* at most one reply is sent.
C14_OnlyFirstImage ==
    \A t \in Tasks :
       (Relevant(t) /\ ev[t].body.image_url # <<>> /\ pc[t] # "json") =>
          /\ obs[t].fetches = <<FirstFetch(ev[t].body)>>
          /\ Len(obs[t].predicted) <= 1
          /\ db.seq <= obs[t].db0.seq + 1
          /\ Cardinality(db.rows) <= Cardinality(obs[t].db0.rows) + 1
          /\ Len(obs[t].replies) <= 1

\* an event with two image references and two access codes handled to its
\* end: one fetch, one classification, one record
C14_Witness ==
    \E t \in Tasks :
       /\ Relevant(t)
       /\ Len(ev[t].body.image_url) = 2
       /\ pc[t] = "done"
       /\ obs[t].fetches = <<<<"u1", "?downloadCode=", "k1">>>>
       /\ Len(obs[t].predicted) = 1
       /\ Cardinality(db.rows) = 1
       /\ obs[t].replies = <<"detection_result">>

\* C15: get_detection_history(limit, offset) returns stored records,
\* newest detection time first, skipping the first offset records of that
\* order and returning min(limit, remaining) records: the record at
\* position i of the result has rank offset + i in the order by time.
C15_HistoryNewestFirst ==
    apiRet.op = "get_detection_history" =>
       LET res == apiRet.result
           n == Cardinality(db.rows)
           Newer(r) == {q \in db.rows : q.detection_time > r.detection_time}
           NotOlder(r) == {q \in db.rows : q.detection_time >= r.detection_time}
       IN  /\ Len(res) = Min(apiRet.limit, Max(n - apiRet.offset, 0))
           /\ \A i \in 1..Len(res) :
                 /\ res[i] \in db.rows
                 /\ Cardinality(Newer(res[i])) <= apiRet.offset + i - 1
                 /\ Cardinality(NotOlder(res[i])) >= apiRet.offset + i
           /\ \A i, j \in 1..Len(res) :
                 i < j => /\ res[i] # res[j]
                          /\ res[i].detection_time >= res[j].detection_time

\* three records of two detection times, the newest time held by one record
\* only, and the page of limit 1 behind it
C15_Witness ==
    /\ apiRet.op = "get_detection_history"
    /\ Cardinality(db.rows) = 3
    /\ Cardinality({r \in db.rows : r.detection_time = 2}) = 1
    /\ apiRet.limit = 1
    /\ apiRet.offset = 1
    /\ Len(apiRet.result) = 1
    /\ apiRet.result[1].detection_time = 1

\* the value of a column summed over the ids 1..k, each id looked up
RECURSIVE SumById(_, _, _)
SumById(d, column, k) ==
    IF k = 0 THEN 0
    ELSE LET row == get_detection_by_id(d, k)
         IN  (IF row = None THEN 0 ELSE row[column]) + SumById(d, column, k - 1)

\* C17: get_statistics reflects the records persisted when it is called:
\* total_detections is the number of ids that resolve to a record,
\* unsafe_detections the number of those whose record is not safe,
\* total_locks and total_unlocked the sums of their counts (0 when there
\* is none), and safety_rate is 100 without records and
\* (total - unsafe) / total * 100 otherwise.
C17_StatisticsLive ==
    apiRet.op = "get_statistics" =>
       LET st == apiRet.result
           ids == {k \in 1..db.seq : get_detection_by_id(db, k) # None}
           unsafe == {k \in ids : ~get_detection_by_id(db, k).is_safe}
           total == Cardinality(ids)
       IN  /\ st.total_detections = total
           /\ st.unsafe_detections = Cardinality(unsafe)
           /\ st.total_locks = SumById(db, "locks_detected", db.seq)
           /\ st.total_unlocked = SumById(db, "unlocked_locks", db.seq)
           /\ total = 0 => st.safety_rate.num = 100 * st.safety_rate.den
           /\ total > 0 =>
                 st.safety_rate.num * total =
                    (total - Cardinality(unsafe)) * 100 * st.safety_rate.den

\* a safe and an unsafe record: 2 detections, 1 unsafe, 4 locks, 1
\* unlocked, safety rate 50
C17_Witness ==
    /\ apiRet.op = "get_statistics"
    /\ Cardinality(db.rows) = 2
    /\ apiRet.result.total_detections = 2
    /\ apiRet.result.unsafe_detections = 1
    /\ apiRet.result.total_locks = 4
    /\ apiRet.result.total_unlocked = 1
    /\ apiRet.result.safety_rate.num = 50 * apiRet.result.safety_rate.den

\* C20: lock-detail rows go with their parent: a step that removes a
\* detection record (a replace by an upsert included) leaves no
\* lock_details row with the id of that record, so that every lock_details
\* row keeps pointing at a stored detection record.
C20_DetailsRemovedWithParent ==
    [][\A r \in db.rows :
          r \notin db'.rows =>
             \A detail \in db'.details : detail.detection_id # r.id]_vars

\* C16: GET /api/v1/history pages by limit and offset: with offset = k the
\* response skips the k newest records, so the record at position i has
\* rank k + i by detection time and min(limit, remaining) records come
\* back.
C16_ApiHistoryPaged ==
    apiRet.op = "api_history" =>
       LET res == apiRet.history
           n == Cardinality(db.rows)
           NotOlder(r) == {q \in db.rows : q.detection_time >= r.detection_time}
       IN  /\ Len(res) = Min(apiRet.limit, Max(n - apiRet.offset, 0))
           /\ \A i \in 1..Len(res) :
                 Cardinality(NotOlder(res[i])) >= apiRet.offset + i

\* the lock counts and the verdict of a detection
SameOutcome(a, b) ==
    /\ a.locks_detected = b.locks_detected
    /\ a.unlocked_locks = b.unlocked_locks
    /\ a.is_safe = b.is_safe

\* C18: repeated delivery does not inflate the counts: a detect request
\* that stores, for a fingerprint already stored, the outcome stored for
\* it leaves total_detections, unsafe_detections, total_locks and
\* total_unlocked as they were.
C18_RepeatDoesNotInflate ==
    [][\A h \in Hashes :
          (/\ hist[h] # None
           /\ hist'[h] # hist[h]
           /\ SameOutcome(hist[h].result, hist'[h].result)) =>
              LET before == get_statistics(db)
                  after == get_statistics(db')
              IN  /\ after.total_detections = before.total_detections
                  /\ after.unsafe_detections = before.unsafe_detections
                  /\ after.total_locks = before.total_locks
                  /\ after.total_unlocked = before.total_unlocked]_vars

\* the same image detected twice as unlocked (two lock_details rows tell
\* it), and the statistics read after it: 1 detection, 1 lock
C18_Witness ==
    /\ detects = 2
    /\ apiRet.op = "api_stats"
    /\ apiRet.detection_stats.total_detections = 1
    /\ apiRet.detection_stats.unsafe_detections = 1
    /\ apiRet.detection_stats.total_locks = 1
    /\ apiRet.detection_stats.total_unlocked = 1
    /\ \E h \in Hashes : hist[h] # None /\ hist[h].first = 1 /\ hist[h].last = 2
    /\ \A id \in 1..2 :
          \E detail \in db.details :
             detail.detection_id = id /\ detail.lock_type = "unlocked"

\* C19: every detect request answered with success and a stored detection
\* id adds a detection: after k of them the statistics report
\* total_detections >= k and a history request whose limit is at least k
\* returns at least k entries.
C19_EveryDetectAddsEntry ==
    /\ apiRet.op = "api_stats" =>
          apiRet.detection_stats.total_detections >= detects
    /\ (apiRet.op = "api_history" /\ apiRet.limit >= detects) =>
          Len(apiRet.history) >= detects

\* C21: whenever POST /api/v1/lock/detect answers with success, the
\* detection_id of the response is the id of a record stored at that
\* moment: get_detection_by_id finds it.
C21_SuccessIdIsPersisted ==
    (apiRet.op = "detect_locks" /\ apiRet.success) =>
        get_detection_by_id(db, apiRet.detection_id) # None

\* C22: a detect request whose bytes are no image is answered with
\* success = false and the detection-failure message, and the step leaves
\* the store as it was: no detection record, no lock_details row, the
\* same statistics.
C22_UndecodableLeavesStore ==
    [][(apiRet'.op = "detect_locks" /\ ~apiRet'.file_decodes) =>
          /\ ~apiRet'.success
          /\ apiRet'.message = "detection_failed"
          /\ db' = db
          /\ get_statistics(db') = get_statistics(db)]_vars

\* an undecodable upload answered over a store that holds a record
C22_Witness ==
    /\ apiRet.op = "detect_locks"
    /\ ~apiRet.file_decodes
    /\ ~apiRet.success
    /\ db.rows # {}
    /\ db.details # {}

(***************************************************************************)
(* SpecMain: the DingTalk endpoints of main.py (63-80, 265-323).           *)
(* webhook_service.module is the global webhook_service of                 *)
(* apps/webhook_service.py, webhook_service.main the name that             *)
(* `from apps.webhook_service import webhook_service` binds in main.py     *)
(* when main.py is imported, to the value the global has then (None).      *)
(* apiRet is the response of the last request.                             *)
(***************************************************************************)
\* the credentials a configure request or the environment may carry
AppKeys == {"bot", "bot2"}
AppSecrets == {"secret", "other"}

\* DingTalkWebhookService.__init__
DingTalkWebhookService(app_key, app_secret, webhook_url) ==
    [app_key |-> app_key, app_secret |-> app_secret,
     session_webhook |-> "", session_webhook_expired_time |-> 0,
     webhook_url |-> webhook_url]

\* init_webhook_service: `global webhook_service` rebinds the global of its
\* own module; no statement assigns the name imported into main.py
init_webhook_service(names, app_key, app_secret, webhook_url, caller) ==
    [names EXCEPT !.module =
                     DingTalkWebhookService(app_key, app_secret, webhook_url),
                  !.bound_by = caller]

\* startup_event: with DINGTALK_APP_KEY and DINGTALK_APP_SECRET in the
\* environment the service is initialised, otherwise it is not
StartupStates ==
    {NoService}
    \cup {init_webhook_service(NoService, k, s, w, "startup") :
            k \in AppKeys, s \in AppSecrets, w \in WebhookUrls}

\* the status with which a callback handed to handle_callback of a service
\* comes back through dingtalk_webhook: handle_callback turns a failed
\* verification, an unreadable body and a malformed body into
\* HTTPException(500), which dingtalk_webhook re-raises; every other event
\* returns the success dictionary
handle_callback_status(service, event) ==
    IF ~verify_signature(service.app_secret, event.timestamp, event.sign)
    THEN 500
    ELSE IF event.body.kind \in {"bad_json", "bad_shape"} THEN 500 ELSE 200

\* POST /api/v1/dingtalk/configure
configure_dingtalk(app_key, app_secret, webhook_url) ==
    /\ webhook_service' =
          init_webhook_service(webhook_service, app_key, app_secret, webhook_url,
                               "configure")
    /\ apiRet' = [op |-> "configure", success |-> TRUE,
                  message |-> "configured"]
    /\ UNCHANGED <<db, hist, svc, pc, ev, obs, outcome, origin, detects>>

\* POST /api/v1/dingtalk/webhook: `if not webhook_service` reads the name
\* of main.py
dingtalk_webhook(event) ==
    /\ apiRet' =
          IF webhook_service.main = None
          THEN [op |-> "webhook", status |-> 400,
                message |-> "not_configured", verified |-> "not_reached",
                sign |-> event.sign, kind |-> event.body.kind,
                configured |-> webhook_service.bound_by]
          ELSE [op |-> "webhook",
                status |-> handle_callback_status(webhook_service.main, event),
                message |-> "handled",
                verified |-> IF verify_signature(
                                    webhook_service.main.app_secret,
                                    event.timestamp, event.sign)
                             THEN "passed" ELSE "failed",
                sign |-> event.sign, kind |-> event.body.kind,
                configured |-> webhook_service.bound_by]
    /\ UNCHANGED <<db, hist, svc, pc, ev, obs, outcome, origin, detects,
                   webhook_service>>

NextMain ==
    \/ \E k \in AppKeys, s \in AppSecrets, w \in WebhookUrls :
          configure_dingtalk(k, s, w)
    \/ \E e \in Events : dingtalk_webhook(e)

InitMain ==
    /\ db = DbInit
    /\ hist = HistInit
    /\ apiRet = ApiInit
    /\ svc = ServiceInit("")
    /\ pc = [t \in Tasks |-> "idle"]
    /\ ev = [t \in Tasks |-> None]
    /\ obs = [t \in Tasks |-> ObsInit(DbInit, ServiceInit(""))]
    /\ outcome = LockDetectionResult(1)
    /\ origin = "new"
    /\ detects = 0
    /\ webhook_service \in StartupStates

SpecMain == InitMain /\ [][NextMain]_vars

\* C23: a callback is answered 400 "not configured" exactly when the
\* service has not been configured: every callback before any configuration
\* gets the 400, and every callback after a configuration (by the configure
\* request or at startup) is handed to the service and reaches the
\* signature verification.
C23_NotConfiguredExactlyWhenUnconfigured ==
    apiRet.op = "webhook" =>
       /\ (apiRet.status = 400 /\ apiRet.message = "not_configured")
             <=> apiRet.configured = "none"
       /\ apiRet.configured # "none" => apiRet.verified # "not_reached"

\* C24: a reply is reported as sent exactly when the JSON body of the
\* channel's response carries errcode 0, whatever the HTTP status.
C24_SuccessIffErrcodeZero ==
    \A t \in Tasks :
       (pc[t] = "done" /\ obs[t].answer.kind = "response") =>
           ((obs[t].send_result = "true") <=> (obs[t].answer.errcode = 0))

\* the post of the reply failed: no response, a status other than 200, or
\* an errcode other than 0
PostFailed(t) ==
    \/ obs[t].answer.kind = "transport"
    \/ obs[t].answer.kind = "response" /\ obs[t].answer.status # 200
    \/ obs[t].answer.kind = "response" /\ obs[t].answer.errcode # 0

\* C25: no downstream failure escapes the handler: a relevant event ends
\* with the success result whatever failed after the mention check, every
\* reply is posted at most once, and a failed post is reported as false.
C25_NoFailureEscapes ==
    \A t \in Tasks :
       Relevant(t) =>
          /\ pc[t] = "done" => obs[t].status = 200
          /\ Len(obs[t].posts) <= Len(obs[t].replies)
          /\ Len(obs[t].posts) <= 1
          /\ (pc[t] = "done" /\ PostFailed(t)) => obs[t].send_result = "false"

\* a relevant event whose store write failed and whose reply post met a
\* transport error, ended with the success result
C25_Witness ==
    \E t \in Tasks :
       /\ Relevant(t)
       /\ pc[t] = "done"
       /\ obs[t].persist = "failed"
       /\ obs[t].answer.kind = "transport"
       /\ obs[t].status = 200
       /\ obs[t].send_result = "false"
       /\ Len(obs[t].posts) = 1

\* the order of the stages of one event
StageRank(name) ==
    CASE name = "verify" -> 1
      [] name = "parse" -> 2
      [] name = "mention" -> 3
      [] name = "session" -> 4
      [] name = "fetch" -> 5
      [] name = "classify" -> 6
      [] name = "save_detection" -> 7
      [] name = "save_lock_details" -> 8
      [] name = "reply" -> 9

\* the stage that must have run before a stage runs
StageBefore(name) ==
    CASE name = "parse" -> "verify"
      [] name = "mention" -> "parse"
      [] name = "session" -> "mention"
      [] name = "fetch" -> "session"
      [] name = "classify" -> "fetch"
      [] name = "save_detection" -> "classify"
      [] name = "save_lock_details" -> "save_detection"
      [] name = "reply" -> "session"
      [] OTHER -> "verify"

\* C26: the stages of one event run in the order verify, parse, mention
\* check, session update, fetch, classify, persist (save_detection, then
\* save_lock_details), reply, each only after the stage it builds on; an
\* event ended by a failed verification, the mention check or a failed
\* fetch runs no later stage but the reply of the failed fetch; the
\* detection-result reply comes after the persist attempt; and every
\* lock_details row carries an id that save_detection_result has returned.
C26_StagesInOrder ==
    /\ \A t \in Tasks :
          LET st == obs[t].stages
          IN  /\ \A i, j \in 1..Len(st) :
                    i < j => StageRank(st[i]) < StageRank(st[j])
              /\ \A i \in 1..Len(st) : Contains(st, StageBefore(st[i]))
              /\ (ev[t] # None /\ ~Verified(t)) => st = <<"verify">>
              /\ Irrelevant(t) => ~Contains(st, "session")
              /\ FetchFailed(t) => ~Contains(st, "classify")
              /\ Contains(obs[t].replies, "detection_result") =>
                    Contains(st, "save_detection")
    /\ \A detail \in db.details : detail.detection_id \in 1..db.seq

\* an event that ran every stage
C26_Witness ==
    \E t \in Tasks :
       /\ pc[t] = "done"
       /\ obs[t].stages = <<"verify", "parse", "mention", "session", "fetch",
                            "classify", "save_detection", "save_lock_details",
                            "reply">>
       /\ db.details # {}

\* the message carries a fresh reply channel
Fresh(message) ==
    /\ message.session_webhook # ""
    /\ message.session_webhook_expired_time > 0

\* the session webhook, its expiry and the sender's URL are those of the
\* message
SessionIs(message) ==
    /\ svc.session_webhook = message.session_webhook
    /\ svc.session_webhook_expired_time = message.session_webhook_expired_time
    /\ svc.webhook_url = message.session_webhook

ConcSessionFields == {<<"", 0>>, <<"s1", 1>>, <<"s2", 2>>}

ConcBodies ==
    {[EmptyMessage EXCEPT !.text = <<"@", "h">>,
                          !.session_webhook = s[1],
                          !.session_webhook_expired_time = s[2],
                          !.image_url = i] :
        s \in ConcSessionFields, i \in {<<>>, <<"u1">>}}

ConcEvents == [timestamp : {"t1"}, sign : {"sgA"}, body : ConcBodies]

\* the image server fails, or answers with the one image both events show
ConcDownloads ==
    {[kind |-> "transport", status |-> 0, decodes |-> FALSE,
      image |-> <<"g1", "c1">>],
     [kind |-> "response", status |-> 200, decodes |-> TRUE,
      image |-> <<"g1", "c1">>]}

\* the classifier says locked or unlocked
ConcPredictions == [kind : {"probs"}, top1 : {1, 2}, top1conf : Confidences]

\* the channel accepts the post or cannot be reached
ConcAnswers ==
    {[kind |-> "transport", status |-> 0, errcode |-> 0],
     [kind |-> "response", status |-> 200, errcode |-> 0]}

ConcHandleCallback(t, e) ==
    /\ pc[t] = "idle"
    /\ HandleCallback(t, e)

NextConc ==
    \/ \E t \in Tasks, e \in ConcEvents : ConcHandleCallback(t, e)
    \/ \E t \in Tasks : HandleBody(t)
    \/ \E t \in Tasks, d \in ConcDownloads, p \in ConcPredictions,
          now \in Times : DownloadDone(t, d, p, now, "none")
    \/ \E t \in Tasks, a \in ConcAnswers : PostDone(t, a)

SpecConc == Init /\ [][NextConc]_vars

\* the task has run the session update of its event
SessionUpdated(t) ==
    /\ ev[t] # None
    /\ Contains(obs[t].stages, "session")
    /\ Fresh(ev[t].body)

\* C28: at every suspension point the stored session webhook and expiry
\* are the pair carried by one event (or the initial empty pair), and once
\* an update has happened the sender's URL is the stored session webhook.
C28_SessionUpdateWhole ==
    /\ \/ /\ svc.session_webhook = ""
          /\ svc.session_webhook_expired_time = 0
       \/ \E t \in Tasks :
             /\ SessionUpdated(t)
             /\ svc.session_webhook = ev[t].body.session_webhook
             /\ svc.session_webhook_expired_time =
                   ev[t].body.session_webhook_expired_time
    /\ (\E t \in Tasks : SessionUpdated(t)) =>
          svc.webhook_url = svc.session_webhook

\* two events with different channels have both run their update and are
\* both suspended, and the store holds the pair of one of them
C28_Witness ==
    /\ SessionUpdated("t1") /\ SessionUpdated("t2")
    /\ ev["t1"].body.session_webhook # ev["t2"].body.session_webhook
    /\ pc["t1"] = "download" /\ pc["t2"] = "download"
    /\ svc.session_webhook = "s1"
    /\ svc.session_webhook_expired_time = 1
    /\ svc.webhook_url = "s1"

\* the task has written its detection to the store
Saved(t) == obs[t].persist = "saved"

\* C29: whatever the interleaving of the events that save a detection of
\* the same fingerprint, the store holds exactly one record of that
\* fingerprint, and its fields are those of the save that committed last.
C29_UpsertAtomic ==
    \A h \in Hashes :
       hist[h] # None =>
          /\ Cardinality({row \in db.rows : row.image_hash = h}) = 1
          /\ \A row \in db.rows :
                row.image_hash = h =>
                   /\ RowCarries(row, hist[h].result)
                   /\ row.id = hist[h].last

\* both events saved a detection of the same image, the second while the
\* first was suspended in its post, and the record is the one of the
\* second save
C29_Witness ==
    /\ Saved("t1") /\ Saved("t2")
    /\ obs["t1"].detection_id = 1
    /\ obs["t2"].detection_id = 2
    /\ pc["t1"] = "post"
    /\ \E row \in db.rows : row.id = 2 /\ ~row.is_safe
    /\ Cardinality(db.rows) = 1

\* C30: a reply of an event that brought a fresh channel is posted to that
\* channel.
C30_ReplyToOwnChannel ==
    \A t \in Tasks :
       SessionUpdated(t) =>
          \A i \in 1..Len(obs[t].posts) :
             obs[t].posts[i] = ev[t].body.session_webhook

====
